---- MODULE Spec2Model ----
(***************************************************************************)
(* Inventory reservation core of the service-based order processing        *)
(* system: services/inventory/src/db.ts running against the PostgreSQL     *)
(* schema of db/init (READ COMMITTED, row-level locks, CHECK and FOREIGN   *)
(* KEY constraints).  Every request is handled by its own worker holding   *)
(* one pooled connection; every SQL statement is one step.                 *)
(***************************************************************************)
EXTENDS Integers, Sequences, FiniteSets, TLC

\* ------------------------------------------------------------- bounds
\* Requests handled at the same time, calls in a run, items in a reserve
\* request, quantity of an item, and the stock every SKU is provisioned with
\* (the sample rows carry 100, 50, 200 and 25).
NumWorkers == 2
MaxCalls == 3
MaxItems == 2
MaxQty == 1
InitialStock == 2
\* Steps the clock takes in a run.
MaxTicks == 2
\* Largest amount_cents of a payment request (the sample rows carry 2500
\* and 1500).
MaxAmount == 2

\* ---------------------------------------------------------- constants
Skus == {"item-001", "item-002"}
UnknownSku == "unknown-sku"
SkuIds == Skus \cup {UnknownSku}
Orders == {"order-1", "order-2"}
MissingOrder == "order-x"
OrderIds == Orders \cup {MissingOrder}

Workers == 1..NumWorkers
NoWorker == 0

Item == [sku : SkuIds, quantity : 1..MaxQty]
ItemLists == UNION {[1..n -> Item] : n \in 1..MaxItems}

\* const expirationMinutes = request.expiration_minutes || 30
DefaultExpirationMinutes == 30
\* expiration_minutes?: number -- absent (<<>>) or given (<<m>>)
NoMinutes == <<>>
ExpirationInputs == {NoMinutes, <<0>>, <<1>>}
\* The clock is read in minutes and moves in steps of this many.
TickStep == DefaultExpirationMinutes

VARIABLES
    inventory,               \* committed rows of table inventory, by sku
    dirty,                   \* uncommitted version of a locked inventory row
    rowLock,                 \* owner of the row lock of an inventory row
    inventory_reservations,  \* committed rows of table inventory_reservations
    resLock,                 \* owner of the row lock (pending status update)
    creditCount,             \* history: committed stock credits per reservation
    pc, op, order_id, items, idx,
    readAvail,               \* available_quantity the worker's SELECT returned
    inserted,                \* reservation rows inserted, not yet committed
    selected,                \* reservation ids the release SELECT returned
    outcome,                 \* how the worker's last call ended
    calls,
    expiration_minutes,      \* the reserve request's expiration_minutes
    expiresAt,               \* the expiresAt the reserve call computed
    now,                     \* the clock (Date.now()), in minutes
    payments,                \* committed rows of table payments, oldest first
    payPc,                   \* position of a payment worker in its call
    request,                 \* the ProcessPaymentRequest it handles
    isPaymentSuccessful,     \* what the payment gateway answered
    payOutcome,              \* how the payment worker's last call ended
    payCalls,
    txOpen,                  \* the payment worker's connection is inside BEGIN
    txStart,                 \* NOW() of its transaction: the order of the BEGINs
    refundRequest,           \* the RefundPaymentRequest it handles
    originalPayment,         \* the row getPaymentById returned
    isRefundSuccessful,      \* what the refund capability answered
    summaryResult            \* the summary row its query returned

vars == <<inventory, dirty, rowLock, inventory_reservations, resLock,
          creditCount, pc, op, order_id, items, idx, readAvail, inserted,
          selected, outcome, calls, expiration_minutes, expiresAt, now,
          payments, payPc, request, isPaymentSuccessful, payOutcome, payCalls,
          txOpen, txStart, refundRequest, originalPayment, isRefundSuccessful,
          summaryResult>>

\* What a refund call and a summary call keep while they run.
refundVars == <<refundRequest, originalPayment, isRefundSuccessful>>

\* The payment service's table and workers.
payVars == <<payments, payPc, request, isPaymentSuccessful, payOutcome,
             payCalls, txOpen, txStart, refundVars, summaryResult>>

\* What no call of the inventory service writes.
envVars == <<now, payVars>>

\* The inventory service's tables and workers.
invVars == <<inventory, dirty, rowLock, inventory_reservations, resLock,
             creditCount, pc, op, order_id, items, idx, readAvail, inserted,
             selected, outcome, calls, expiration_minutes, expiresAt>>

dbVars == <<inventory, dirty, rowLock, inventory_reservations, resLock,
            creditCount>>

\* ------------------------------------------------------------ helpers
Range(s) == {s[i] : i \in DOMAIN s}

RECURSIVE SortedIds(_)
SortedIds(S) ==
    IF S = {} THEN <<>>
    ELSE LET m == CHOOSE x \in S : \A y \in S : x <= y
         IN <<m>> \o SortedIds(S \ {m})

\* A release that passes confirmed reservations by.
LiveReservedOnly == {"RESERVED"}
\* status IN ('RESERVED', 'CONFIRMED')
Live == {"RESERVED", "CONFIRMED"}

\* The table without its CHECK on available_quantity.
CheckReservedOnly(row) == row.reserved_quantity >= 0
\* The table without any CHECK constraint.
CheckNone(row) == TRUE
\* CHECK (available_quantity >= 0), CHECK (reserved_quantity >= 0)
InventoryCheck(row) ==
    row.available_quantity >= 0 /\ row.reserved_quantity >= 0

\* The error a violated CHECK raises names the constraint.
CheckError(row) ==
    IF row.available_quantity < 0 THEN "inventory_available_quantity_check"
    ELSE "inventory_reserved_quantity_check"

\* A registry in which every order id is found.
OrderExistsAlways(o) == TRUE
\* order_id UUID NOT NULL REFERENCES orders(id);
\* SELECT id FROM orders WHERE id = $1
OrderExists(o) == o \in Orders

\* A statement that does not see what its own transaction wrote.
VisibleCommitted(p, s) == inventory[s]
\* The version of an inventory row a statement of worker p sees: its own
\* uncommitted write, or else the last committed version.
Visible(p, s) == IF rowLock[s] = p THEN dirty[s] ELSE inventory[s]

\* A read that sees the uncommitted version of a row (READ UNCOMMITTED).
DirtyRead(s) == dirty[s]
\* What a statement outside any writing transaction sees.
Committed(s) == inventory[s]

\* A debit of one unit whatever the quantity asked.
DebitOne(row, q) ==
    [available_quantity |-> row.available_quantity - 1,
     reserved_quantity |-> row.reserved_quantity + 1]
\* UPDATE inventory SET available_quantity = available_quantity - q,
\*                      reserved_quantity = reserved_quantity + q
Debit(row, q) ==
    [available_quantity |-> row.available_quantity - q,
     reserved_quantity |-> row.reserved_quantity + q]

\* A credit that forgets reserved_quantity.
CreditNoReserve(row, q) ==
    [available_quantity |-> row.available_quantity + q,
     reserved_quantity |-> row.reserved_quantity]
\* UPDATE inventory SET available_quantity = available_quantity + q,
\*                      reserved_quantity = reserved_quantity - q
Credit(row, q) ==
    [available_quantity |-> row.available_quantity + q,
     reserved_quantity |-> row.reserved_quantity - q]

\* Error mapping of POST /inventory/reserve
ReserveStatusCode(err) ==
    IF err = "ok" THEN 201
    ELSE IF err = "InsufficientStock" THEN 409
    ELSE 500

\* What a worker holds as the result of its last call before it has one.
NoOutcome == [result |-> "none", at |-> 0]

\* ------------------------------------------------------- payment inputs
\* validCurrencies, validPaymentMethods (two of each)
Currencies == {"USD", "EUR"}
PaymentMethods == {"credit_card", "paypal"}
ProcessPaymentRequest ==
    [order_id : OrderIds, amount_cents : 1..MaxAmount,
     currency : Currencies, payment_method : PaymentMethods]
\* The requests of a run: dollars are paid by card and euros by paypal.
PaymentInputs ==
    {r \in ProcessPaymentRequest :
        (r.currency = "USD") <=> (r.payment_method = "credit_card")}
\* What a payment worker holds between calls.
NoRequest ==
    [order_id |-> MissingOrder, amount_cents |-> 0, currency |-> "",
     payment_method |-> ""]

\* Insert sample payment data for testing: two completed payments of the
\* first order.
SamplePayments ==
    <<[order_id |-> "order-1", amount_cents |-> MaxAmount, currency |-> "USD",
       status |-> "COMPLETED", payment_method |-> "credit_card",
       created_at |-> 0],
      [order_id |-> "order-1", amount_cents |-> 1, currency |-> "USD",
       status |-> "COMPLETED", payment_method |-> "paypal",
       created_at |-> 0]>>

\* amount_cents?: number -- absent (<<>>) or given (<<n>>)
NoAmount == <<>>
\* The id no row of payments carries.
UnknownPayment == 0
\* What a payment worker that is not refunding holds.
NoRefundRequest == [payment_id |-> UnknownPayment, amount_cents |-> NoAmount]
NoPayment ==
    [order_id |-> MissingOrder, amount_cents |-> 0, currency |-> "",
     status |-> "", payment_method |-> "", created_at |-> 0]
\* What a payment worker that has no summary holds.
NoSummary ==
    [order_id |-> MissingOrder, total_paid |-> 0, total_refunded |-> 0,
     net_amount |-> 0, payment_count |-> 0, latest_status |-> "null"]

PaymentInit ==
    /\ payments = SamplePayments
    /\ payPc = [p \in Workers |-> "idle"]
    /\ request = [p \in Workers |-> NoRequest]
    /\ isPaymentSuccessful = [p \in Workers |-> FALSE]
    /\ payOutcome = [p \in Workers |-> "none"]
    /\ payCalls = 0
    /\ txOpen = [p \in Workers |-> FALSE]
    /\ txStart = [p \in Workers |-> 0]
    /\ refundRequest = [p \in Workers |-> NoRefundRequest]
    /\ originalPayment = [p \in Workers |-> NoPayment]
    /\ isRefundSuccessful = [p \in Workers |-> FALSE]
    /\ summaryResult = [p \in Workers |-> NoSummary]

\* ---------------------------------------------------------------- Init
Init ==
    /\ inventory = [s \in Skus |->
           [available_quantity |-> InitialStock, reserved_quantity |-> 0]]
    /\ dirty = inventory
    /\ rowLock = [s \in Skus |-> NoWorker]
    /\ inventory_reservations = <<>>
    /\ resLock = <<>>
    /\ creditCount = <<>>
    /\ pc = [p \in Workers |-> "idle"]
    /\ op = [p \in Workers |-> "none"]
    /\ order_id = [p \in Workers |-> MissingOrder]
    /\ items = [p \in Workers |-> <<>>]
    /\ idx = [p \in Workers |-> 0]
    /\ readAvail = [p \in Workers |-> 0]
    /\ inserted = [p \in Workers |-> <<>>]
    /\ selected = [p \in Workers |-> <<>>]
    /\ outcome = [p \in Workers |-> NoOutcome]
    /\ calls = 0
    /\ expiration_minutes = [p \in Workers |-> NoMinutes]
    /\ expiresAt = [p \in Workers |-> 0]
    /\ now = 0
    /\ PaymentInit

\* The state after reserve("order-2", [item-001 x 1]) has committed and
\* returned: order-2 holds one unit of item-001.
InitHeld ==
    /\ inventory = [s \in Skus |->
           IF s = "item-001"
           THEN [available_quantity |-> InitialStock - 1, reserved_quantity |-> 1]
           ELSE [available_quantity |-> InitialStock, reserved_quantity |-> 0]]
    /\ dirty = inventory
    /\ rowLock = [s \in Skus |-> NoWorker]
    /\ inventory_reservations =
           <<[order_id |-> "order-2", sku |-> "item-001", quantity |-> 1,
              status |-> "RESERVED",
              expires_at |-> DefaultExpirationMinutes]>>
    /\ resLock = <<NoWorker>>
    /\ creditCount = <<0>>
    /\ pc = [p \in Workers |-> "idle"]
    /\ op = [p \in Workers |-> "none"]
    /\ order_id = [p \in Workers |-> MissingOrder]
    /\ items = [p \in Workers |-> <<>>]
    /\ idx = [p \in Workers |-> 0]
    /\ readAvail = [p \in Workers |-> 0]
    /\ inserted = [p \in Workers |-> <<>>]
    /\ selected = [p \in Workers |-> <<>>]
    /\ outcome = [p \in Workers |-> NoOutcome]
    /\ calls = 0
    /\ expiration_minutes = [p \in Workers |-> NoMinutes]
    /\ expiresAt = [p \in Workers |-> 0]
    /\ now = 0
    /\ PaymentInit

\* ------------------------------------------------- transaction endings
\* Row ids whose pending status update belongs to worker p.
LockedBy(p) == {i \in DOMAIN resLock : resLock[i] = p}

\* A release that leaves its rows in a live status.
NewStatusStaysLive(o) == IF o = "confirm" THEN "CONFIRMED" ELSE "CONFIRMED"
\* SET status = $1: 'CONFIRMED' by confirm, 'RELEASED' by release
NewStatus(o) == IF o = "confirm" THEN "CONFIRMED" ELSE "RELEASED"

Occurrences(s, x) == Cardinality({i \in DOMAIN s : s[i] = x})

\* The worker's local state once its call has returned: only the result
\* outlives the call (for an error, with the loop index it was thrown at).
Return(p, result) ==
    /\ pc' = [pc EXCEPT ![p] = "idle"]
    /\ outcome' = [outcome EXCEPT ![p] =
           [result |-> result, at |-> IF result = "ok" THEN 0 ELSE idx[p]]]
    /\ op' = [op EXCEPT ![p] = "none"]
    /\ order_id' = [order_id EXCEPT ![p] = MissingOrder]
    /\ items' = [items EXCEPT ![p] = <<>>]
    /\ idx' = [idx EXCEPT ![p] = 0]
    /\ readAvail' = [readAvail EXCEPT ![p] = 0]
    /\ inserted' = [inserted EXCEPT ![p] = <<>>]
    /\ selected' = [selected EXCEPT ![p] = <<>>]
    /\ expiration_minutes' = [expiration_minutes EXCEPT ![p] = NoMinutes]
    /\ expiresAt' = [expiresAt EXCEPT ![p] = 0]
    /\ UNCHANGED <<calls, envVars>>

\* A catch block that ends the transaction without undoing it: what was
\* written to inventory stays written.
RollbackKeepsWrites(p) ==
    /\ inventory' = [s \in Skus |->
           IF rowLock[s] = p THEN dirty[s] ELSE inventory[s]]
    /\ dirty' = dirty
    /\ rowLock' = [s \in Skus |-> IF rowLock[s] = p THEN NoWorker ELSE rowLock[s]]
    /\ resLock' = [i \in DOMAIN resLock |->
           IF resLock[i] = p THEN NoWorker ELSE resLock[i]]
    /\ UNCHANGED <<inventory_reservations, creditCount>>

\* ROLLBACK: the transaction's writes are discarded, its locks released.
Rollback(p) ==
    /\ dirty' = [s \in Skus |-> IF rowLock[s] = p THEN inventory[s] ELSE dirty[s]]
    /\ rowLock' = [s \in Skus |-> IF rowLock[s] = p THEN NoWorker ELSE rowLock[s]]
    /\ resLock' = [i \in DOMAIN resLock |->
           IF resLock[i] = p THEN NoWorker ELSE resLock[i]]
    /\ UNCHANGED <<inventory, inventory_reservations, creditCount>>

\* catch (error) { ROLLBACK; throw error }
Fail(p, err) == Rollback(p) /\ Return(p, err)

\* COMMIT: the transaction's writes become the committed versions.
Commit(p) ==
    /\ inventory' = [s \in Skus |->
           IF rowLock[s] = p THEN dirty[s] ELSE inventory[s]]
    /\ dirty' = dirty
    /\ rowLock' = [s \in Skus |-> IF rowLock[s] = p THEN NoWorker ELSE rowLock[s]]
    /\ inventory_reservations' =
           [i \in DOMAIN inventory_reservations |->
               IF resLock[i] = p
               THEN [inventory_reservations[i] EXCEPT !.status = NewStatus(op[p])]
               ELSE inventory_reservations[i]] \o inserted[p]
    /\ resLock' = [i \in DOMAIN resLock |->
           IF resLock[i] = p THEN NoWorker ELSE resLock[i]]
           \o [i \in 1..Len(inserted[p]) |-> NoWorker]
    /\ creditCount' = [i \in DOMAIN creditCount |->
           creditCount[i] + Occurrences(selected[p], i)]
           \o [i \in 1..Len(inserted[p]) |-> 0]
    /\ Return(p, "ok")

\* ------------------------------------------------------ reserveInventory
\* request.expiration_minutes || 30: an absent value and the value 0 both
\* give the default.
ExpirationMinutes(mins) ==
    IF mins = NoMinutes THEN DefaultExpirationMinutes
    ELSE IF mins[1] = 0 THEN DefaultExpirationMinutes
    ELSE mins[1]

\* expiresAt = new Date(Date.now() + expirationMinutes * 60 * 1000);
\* pool.connect(); BEGIN
reserveBegin(p, o, its, mins) ==
    /\ pc[p] = "idle"
    /\ calls < MaxCalls
    /\ calls' = calls + 1
    /\ pc' = [pc EXCEPT ![p] = "r_select"]
    /\ op' = [op EXCEPT ![p] = "reserve"]
    /\ order_id' = [order_id EXCEPT ![p] = o]
    /\ items' = [items EXCEPT ![p] = its]
    /\ idx' = [idx EXCEPT ![p] = 1]
    /\ outcome' = [outcome EXCEPT ![p] = NoOutcome]
    /\ expiration_minutes' = [expiration_minutes EXCEPT ![p] = mins]
    /\ expiresAt' = [expiresAt EXCEPT ![p] = now + ExpirationMinutes(mins)]
    /\ UNCHANGED <<dbVars, readAvail, inserted, selected, envVars>>

CurrentItem(p) == items[p][idx[p]]

\* SELECT available_quantity, reserved_quantity FROM inventory WHERE sku = $1
\* and the two checks on its result.
reserveSelect(p) ==
    /\ pc[p] = "r_select"
    /\ LET item == CurrentItem(p) IN
       IF item.sku \notin Skus
       THEN Fail(p, "NotFound")
       ELSE IF Visible(p, item.sku).available_quantity < item.quantity
       THEN Fail(p, "InsufficientStock")
       ELSE /\ pc' = [pc EXCEPT ![p] = "r_update"]
            /\ readAvail' = [readAvail EXCEPT ![p] =
                   Visible(p, item.sku).available_quantity]
            /\ UNCHANGED <<dbVars, op, order_id, items, idx, inserted,
                           selected, outcome, calls,
                   expiration_minutes, expiresAt, envVars>>

\* UPDATE inventory SET available_quantity = available_quantity - $1, ...
\* The statement waits for the row lock and then works on the row's latest
\* version; the row's CHECK constraints are evaluated on the new version.
\* INSERT INTO inventory_reservations (order_id, sku, quantity, expires_at)
\* follows in the same transaction and touches no row another transaction
\* can see; its foreign key on orders(id) is checked.  Then the loop steps
\* to the next item.
reserveUpdate(p) ==
    /\ pc[p] = "r_update"
    /\ LET item == CurrentItem(p)
           new == Debit(Visible(p, item.sku), item.quantity)
       IN /\ rowLock[item.sku] \in {NoWorker, p}
          /\ IF ~InventoryCheck(new)
             THEN Fail(p, CheckError(new))
             ELSE IF ~OrderExists(order_id[p])
             THEN Fail(p, "ForeignKeyViolation")
             ELSE /\ dirty' = [dirty EXCEPT ![item.sku] = new]
                  /\ rowLock' = [rowLock EXCEPT ![item.sku] = p]
                  /\ inserted' = [inserted EXCEPT ![p] = Append(@,
                         [order_id |-> order_id[p], sku |-> item.sku,
                          quantity |-> item.quantity, status |-> "RESERVED",
                          expires_at |-> expiresAt[p]])]
                  /\ idx' = [idx EXCEPT ![p] = @ + 1]
                  /\ pc' = [pc EXCEPT ![p] =
                         IF idx[p] < Len(items[p]) THEN "r_select"
                         ELSE "r_commit"]
                  /\ UNCHANGED <<inventory, inventory_reservations, resLock,
                                 creditCount, op, order_id, items, readAvail,
                                 selected, outcome, calls,
                   expiration_minutes, expiresAt, envVars>>

\* COMMIT; return reservations
reserveCommit(p) ==
    /\ pc[p] = "r_commit"
    /\ Commit(p)

\* ---------------------------------------------------- confirmReservation
confirmBegin(p, o) ==
    /\ pc[p] = "idle"
    /\ calls < MaxCalls
    /\ calls' = calls + 1
    /\ pc' = [pc EXCEPT ![p] = "c_update"]
    /\ op' = [op EXCEPT ![p] = "confirm"]
    /\ order_id' = [order_id EXCEPT ![p] = o]
    /\ items' = [items EXCEPT ![p] = <<>>]
    /\ outcome' = [outcome EXCEPT ![p] = NoOutcome]
    /\ UNCHANGED <<dbVars, idx, readAvail, inserted, selected,
                   expiration_minutes, expiresAt, envVars>>

\* A WHERE clause that also asks for expires_at to lie ahead.
MatchingUnexpired(o, statuses) ==
    {i \in DOMAIN inventory_reservations :
        /\ inventory_reservations[i].order_id = o
        /\ inventory_reservations[i].status \in statuses
        /\ inventory_reservations[i].expires_at > now}
\* A WHERE clause that compares order_id the wrong way round.
MatchingOthers(o, statuses) ==
    {i \in DOMAIN inventory_reservations :
        /\ inventory_reservations[i].order_id # o
        /\ inventory_reservations[i].status \in statuses}
\* A WHERE clause that forgets order_id = $n.
MatchingAnyOrder(o, statuses) ==
    {i \in DOMAIN inventory_reservations :
        inventory_reservations[i].status \in statuses}
\* Committed reservation rows of an order whose status is in a set.
Matching(o, statuses) ==
    {i \in DOMAIN inventory_reservations :
        /\ inventory_reservations[i].order_id = o
        /\ inventory_reservations[i].status \in statuses}

\* A confirm that also takes rows that were released.
ConfirmableAny == {"RESERVED", "RELEASED"}
\* ... AND status = 'RESERVED'
Confirmable == {"RESERVED"}

\* UPDATE inventory_reservations SET status = 'CONFIRMED'
\*  WHERE order_id = $2 AND status = 'RESERVED'
\* The statement waits for the lock of every row it is to change.
confirmUpdate(p) ==
    /\ pc[p] = "c_update"
    /\ LET rows == Matching(order_id[p], Confirmable) IN
       /\ \A i \in rows : resLock[i] \in {NoWorker, p}
       /\ resLock' = [i \in DOMAIN resLock |->
              IF i \in rows THEN p ELSE resLock[i]]
    /\ pc' = [pc EXCEPT ![p] = "c_commit"]
    /\ UNCHANGED <<inventory, dirty, rowLock, inventory_reservations,
                   creditCount, op, order_id, items, idx, readAvail,
                   inserted, selected, outcome, calls,
                   expiration_minutes, expiresAt, envVars>>

confirmCommit(p) ==
    /\ pc[p] = "c_commit"
    /\ Commit(p)

\* ---------------------------------------------------- releaseReservation
releaseBegin(p, o) ==
    /\ pc[p] = "idle"
    /\ calls < MaxCalls
    /\ calls' = calls + 1
    /\ pc' = [pc EXCEPT ![p] = "l_select"]
    /\ op' = [op EXCEPT ![p] = "release"]
    /\ order_id' = [order_id EXCEPT ![p] = o]
    /\ items' = [items EXCEPT ![p] = <<>>]
    /\ outcome' = [outcome EXCEPT ![p] = NoOutcome]
    /\ UNCHANGED <<dbVars, idx, readAvail, inserted, selected,
                   expiration_minutes, expiresAt, envVars>>

\* SELECT sku, quantity FROM inventory_reservations
\*  WHERE order_id = $1 AND status IN ('RESERVED', 'CONFIRMED')
releaseSelect(p) ==
    /\ pc[p] = "l_select"
    /\ LET rows == SortedIds(Matching(order_id[p], Live)) IN
       /\ selected' = [selected EXCEPT ![p] = rows]
       /\ idx' = [idx EXCEPT ![p] = 1]
       /\ pc' = [pc EXCEPT ![p] = IF rows = <<>> THEN "l_mark" ELSE "l_credit"]
    /\ UNCHANGED <<dbVars, op, order_id, items, readAvail, inserted, outcome, calls,
                   expiration_minutes, expiresAt, envVars>>

\* UPDATE inventory SET available_quantity = available_quantity + $1,
\*                      reserved_quantity = reserved_quantity - $1
\* for one row of the SELECT's result.
releaseCredit(p) ==
    /\ pc[p] = "l_credit"
    /\ LET r == inventory_reservations[selected[p][idx[p]]]
           new == Credit(Visible(p, r.sku), r.quantity)
       IN /\ rowLock[r.sku] \in {NoWorker, p}
          /\ IF ~InventoryCheck(new)
             THEN Fail(p, CheckError(new))
             ELSE /\ dirty' = [dirty EXCEPT ![r.sku] = new]
                  /\ rowLock' = [rowLock EXCEPT ![r.sku] = p]
                  /\ idx' = [idx EXCEPT ![p] = @ + 1]
                  /\ pc' = [pc EXCEPT ![p] =
                         IF idx[p] < Len(selected[p]) THEN "l_credit"
                         ELSE "l_mark"]
                  /\ UNCHANGED <<inventory, inventory_reservations, resLock,
                                 creditCount, op, order_id, items, readAvail,
                                 inserted, selected, outcome, calls,
                   expiration_minutes, expiresAt, envVars>>

\* UPDATE inventory_reservations SET status = 'RELEASED'
\*  WHERE order_id = $2 AND status IN ('RESERVED', 'CONFIRMED')
releaseMark(p) ==
    /\ pc[p] = "l_mark"
    /\ LET rows == Matching(order_id[p], Live) IN
       /\ \A i \in rows : resLock[i] \in {NoWorker, p}
       /\ resLock' = [i \in DOMAIN resLock |->
              IF i \in rows THEN p ELSE resLock[i]]
    /\ pc' = [pc EXCEPT ![p] = "l_commit"]
    /\ UNCHANGED <<inventory, dirty, rowLock, inventory_reservations,
                   creditCount, op, order_id, items, idx, readAvail,
                   inserted, selected, outcome, calls,
                   expiration_minutes, expiresAt, envVars>>

releaseCommit(p) ==
    /\ pc[p] = "l_commit"
    /\ Commit(p)

\* ------------------------------------------------------ lock wait cycles
\* The inventory row a worker's next statement must lock, if it has one.
Wanted(p) ==
    IF pc[p] = "r_update" THEN {CurrentItem(p).sku}
    ELSE IF pc[p] = "l_credit"
    THEN {inventory_reservations[selected[p][idx[p]]].sku}
    ELSE {}

\* The worker whose lock p waits for (NoWorker when p does not wait).  Only
\* inventory row locks can be waited for by a transaction that is itself
\* waited for: a holder of reservation row locks issues no further statement
\* but COMMIT.
WaitsFor(p) ==
    IF p = NoWorker \/ Wanted(p) = {} THEN NoWorker
    ELSE LET s == CHOOSE x \in Wanted(p) : TRUE IN
         IF rowLock[s] \in {NoWorker, p} THEN NoWorker ELSE rowLock[s]

RECURSIVE WaitChain(_, _)
WaitChain(p, n) == IF n = 0 THEN p ELSE WaitsFor(WaitChain(p, n - 1))

\* A database without a deadlock detector.
InCycleNever(p) == FALSE
\* A set of transactions each waiting for a lock the next one holds.
InCycle(p) == \E n \in 1..NumWorkers : WaitChain(p, n) = p

\* PostgreSQL's deadlock detector aborts one statement of a wait cycle; the
\* error is caught, the transaction rolled back and the error rethrown.
deadlockAbort(p) ==
    /\ pc[p] \in {"r_update", "l_credit"}
    /\ InCycle(p)
    /\ Fail(p, "DeadlockDetected")

\* ------------------------------------------------------ checkAvailability
\* pool.connect()
checkBegin(p, sku, requestedQuantity) ==
    /\ pc[p] = "idle"
    /\ calls < MaxCalls
    /\ calls' = calls + 1
    /\ pc' = [pc EXCEPT ![p] = "a_select"]
    /\ op' = [op EXCEPT ![p] = "check"]
    /\ items' = [items EXCEPT ![p] =
           <<[sku |-> sku, quantity |-> requestedQuantity]>>]
    /\ idx' = [idx EXCEPT ![p] = 1]
    /\ outcome' = [outcome EXCEPT ![p] = NoOutcome]
    /\ UNCHANGED <<dbVars, order_id, readAvail, inserted, selected,
                   expiration_minutes, expiresAt, envVars>>

\* SELECT sku, available_quantity, price_cents FROM inventory WHERE sku = $1
\* (no transaction: the statement sees committed rows only)
checkSelect(p) ==
    /\ pc[p] = "a_select"
    /\ pc' = [pc EXCEPT ![p] = "a_return"]
    /\ readAvail' = [readAvail EXCEPT ![p] =
           IF CurrentItem(p).sku \notin Skus THEN 0
           ELSE Committed(CurrentItem(p).sku).available_quantity]
    /\ UNCHANGED <<dbVars, op, order_id, items, idx, inserted, selected,
                   outcome, calls,
                   expiration_minutes, expiresAt, envVars>>

\* An answer that wants more stock than was asked for.
AvailabilityCheckStrict(p) ==
    [sku |-> CurrentItem(p).sku,
     requested_quantity |-> CurrentItem(p).quantity,
     available_quantity |-> readAvail[p],
     is_available |-> /\ CurrentItem(p).sku \in Skus
                      /\ readAvail[p] > CurrentItem(p).quantity]
\* The AvailabilityCheck the call returns.
AvailabilityCheck(p) ==
    [sku |-> CurrentItem(p).sku,
     requested_quantity |-> CurrentItem(p).quantity,
     available_quantity |-> readAvail[p],
     is_available |-> /\ CurrentItem(p).sku \in Skus
                      /\ readAvail[p] >= CurrentItem(p).quantity]

\* return { sku, requested_quantity, available_quantity, is_available }
checkReturn(p) ==
    /\ pc[p] = "a_return"
    /\ Return(p, "ok")
    /\ UNCHANGED dbVars

\* ----------------------------------------------------------------- Next
Next ==
    \/ \E p \in Workers, o \in OrderIds, its \in ItemLists :
          reserveBegin(p, o, its, NoMinutes)
    \/ \E p \in Workers : reserveSelect(p)
    \/ \E p \in Workers : reserveUpdate(p)
    \/ \E p \in Workers : reserveCommit(p)
    \/ \E p \in Workers, o \in OrderIds : confirmBegin(p, o)
    \/ \E p \in Workers : confirmUpdate(p)
    \/ \E p \in Workers : confirmCommit(p)
    \/ \E p \in Workers, o \in OrderIds : releaseBegin(p, o)
    \/ \E p \in Workers : releaseSelect(p)
    \/ \E p \in Workers : releaseCredit(p)
    \/ \E p \in Workers : releaseMark(p)
    \/ \E p \in Workers : releaseCommit(p)
    \/ \E p \in Workers : deadlockAbort(p)
    \/ \E p \in Workers, s \in SkuIds, q \in 1..MaxQty : checkBegin(p, s, q)
    \/ \E p \in Workers : checkSelect(p)
    \/ \E p \in Workers : checkReturn(p)

Spec == Init /\ [][Next]_vars

\* Concurrent reserve calls alone, for existing orders and known SKUs.
KnownItemLists == {its \in ItemLists : \A i \in DOMAIN its : its[i].sku \in Skus}

NextReserve ==
    \/ \E p \in Workers, o \in Orders, its \in KnownItemLists :
          reserveBegin(p, o, its, NoMinutes)
    \/ \E p \in Workers : reserveSelect(p)
    \/ \E p \in Workers : reserveUpdate(p)
    \/ \E p \in Workers : reserveCommit(p)
    \/ \E p \in Workers : deadlockAbort(p)

SpecReserve == Init /\ [][NextReserve]_vars

\* Every statement that can run eventually runs: the event loop resumes
\* every call whose query has answered, the database answers every statement
\* that does not wait for a lock, and its deadlock detector fires.
FairReserve == SpecReserve /\ WF_vars(NextReserve)

\* The same program started from the state in which order-2 already holds
\* stock.
SpecHeld == InitHeld /\ [][Next]_vars

\* ------------------------------------------------------- one call at a time
\* Time passes.
Tick ==
    /\ now < MaxTicks * TickStep
    /\ now' = now + TickStep
    /\ UNCHANGED <<invVars, payVars>>

\* The one worker of a run in which every call returns before the next
\* begins.
Solo == 1

\* Requests of such a run: quantities one above those of the concurrent
\* runs.
SoloQty == 1..(MaxQty + 1)
SoloItem == [sku : SkuIds, quantity : SoloQty]
SoloItemLists == UNION {[1..n -> SoloItem] : n \in 1..MaxItems}

NextSolo ==
    \/ \E o \in OrderIds, its \in SoloItemLists :
          reserveBegin(Solo, o, its, NoMinutes)
    \/ reserveSelect(Solo)
    \/ reserveUpdate(Solo)
    \/ reserveCommit(Solo)
    \/ \E o \in OrderIds : confirmBegin(Solo, o)
    \/ confirmUpdate(Solo)
    \/ confirmCommit(Solo)
    \/ \E o \in OrderIds : releaseBegin(Solo, o)
    \/ releaseSelect(Solo)
    \/ releaseCredit(Solo)
    \/ releaseMark(Solo)
    \/ releaseCommit(Solo)
    \/ \E s \in SkuIds, q \in SoloQty : checkBegin(Solo, s, q)
    \/ checkSelect(Solo)
    \/ checkReturn(Solo)

SpecSolo == Init /\ [][NextSolo]_vars

\* ------------------------------------------------- one call at a time, timed
\* The same run with a moving clock, with expiration_minutes absent, zero
\* or positive in the reserve requests, and for existing orders only.
NextClock ==
    \/ \E o \in Orders, its \in ItemLists, mins \in ExpirationInputs :
          reserveBegin(Solo, o, its, mins)
    \/ reserveSelect(Solo)
    \/ reserveUpdate(Solo)
    \/ reserveCommit(Solo)
    \/ \E o \in Orders : confirmBegin(Solo, o)
    \/ confirmUpdate(Solo)
    \/ confirmCommit(Solo)
    \/ \E o \in Orders : releaseBegin(Solo, o)
    \/ releaseSelect(Solo)
    \/ releaseCredit(Solo)
    \/ releaseMark(Solo)
    \/ releaseCommit(Solo)
    \/ Tick

SpecClock == Init /\ [][NextClock]_vars

\* Every call that can take a step eventually takes one, and the clock moves
\* while it can.
FairClock == SpecClock /\ WF_vars(NextClock)

\* ---------------------------------------------------------- processPayment
\* pool.connect(); BEGIN
processPaymentBegin(p, req) ==
    /\ payPc[p] = "idle"
    /\ payCalls < MaxCalls
    /\ payCalls' = payCalls + 1
    /\ payPc' = [payPc EXCEPT ![p] = "p_order"]
    /\ request' = [request EXCEPT ![p] = req]
    /\ payOutcome' = [payOutcome EXCEPT ![p] = "none"]
    /\ txOpen' = [txOpen EXCEPT ![p] = TRUE]
    /\ txStart' = [txStart EXCEPT ![p] = payCalls + 1]
    /\ UNCHANGED <<payments, isPaymentSuccessful, refundVars, summaryResult,
                   invVars, now>>

\* COMMIT or ROLLBACK, client.release(), return or throw: the transaction
\* is over and what outlives the call is its result.
PaymentReturn(p, result) ==
    /\ payPc' = [payPc EXCEPT ![p] = "idle"]
    /\ payOutcome' = [payOutcome EXCEPT ![p] = result]
    /\ request' = [request EXCEPT ![p] = NoRequest]
    /\ isPaymentSuccessful' = [isPaymentSuccessful EXCEPT ![p] = FALSE]
    /\ txOpen' = [txOpen EXCEPT ![p] = FALSE]
    /\ txStart' = [txStart EXCEPT ![p] = 0]
    /\ refundRequest' = [refundRequest EXCEPT ![p] = NoRefundRequest]
    /\ originalPayment' = [originalPayment EXCEPT ![p] = NoPayment]
    /\ isRefundSuccessful' = [isRefundSuccessful EXCEPT ![p] = FALSE]
    /\ UNCHANGED <<payCalls, summaryResult, invVars, now>>

\* SELECT id FROM orders WHERE id = $1; no row: throw 'Order not found',
\* caught, ROLLBACK of a transaction that wrote nothing, rethrown.
processPaymentOrderCheck(p) ==
    /\ payPc[p] = "p_order"
    /\ IF ~OrderExists(request[p].order_id)
       THEN PaymentReturn(p, "OrderNotFound") /\ UNCHANGED payments
       ELSE /\ payPc' = [payPc EXCEPT ![p] = "p_gateway"]
            /\ UNCHANGED <<payments, request, isPaymentSuccessful, payOutcome,
                           payCalls, txOpen, txStart, refundVars,
                           summaryResult, invVars, now>>

\* isPaymentSuccessful = await simulatePaymentProcessing(request): the
\* gateway answers once, with success or failure.
processPaymentGateway(p, success) ==
    /\ payPc[p] = "p_gateway"
    /\ payPc' = [payPc EXCEPT ![p] = "p_insert"]
    /\ isPaymentSuccessful' = [isPaymentSuccessful EXCEPT ![p] = success]
    /\ UNCHANGED <<payments, request, payOutcome, payCalls, txOpen, txStart,
                   refundVars, summaryResult, invVars, now>>

\* A ledger that records a declined payment as still pending.
PaymentStatusPending(success) == IF success THEN "COMPLETED" ELSE "PENDING"
\* const status = isPaymentSuccessful ? 'COMPLETED' : 'FAILED'
PaymentStatus(success) == IF success THEN "COMPLETED" ELSE "FAILED"

\* The row of INSERT INTO payments (id, order_id, amount_cents, currency,
\* status, payment_method, ..., NOW(), NOW()); its id is its place in the
\* table, and NOW() is the time its transaction began.
PaymentRow(p) ==
    [order_id |-> request[p].order_id,
     amount_cents |-> request[p].amount_cents,
     currency |-> request[p].currency,
     status |-> PaymentStatus(isPaymentSuccessful[p]),
     payment_method |-> request[p].payment_method,
     created_at |-> txStart[p]]

\* INSERT INTO payments ... RETURNING *, inside the transaction: no other
\* connection sees the row yet.
processPaymentInsert(p) ==
    /\ payPc[p] = "p_insert"
    /\ payPc' = [payPc EXCEPT ![p] = "p_commit"]
    /\ UNCHANGED <<payments, request, isPaymentSuccessful, payOutcome,
                   payCalls, txOpen, txStart, refundVars, summaryResult,
                   invVars, now>>

\* A write-back of the seeded ledger plus the caller's row: a lost update.
InsertPaymentOverSeed(rows, row) ==
    Append(SubSeq(rows, 1, Len(SamplePayments)), row)
\* A write that replaces the newest row of the ledger in place.
InsertPaymentReplacing(rows, row) == [rows EXCEPT ![Len(rows)] = row]
\* INSERT INTO payments (...) VALUES (...): the one write either function
\* makes to the ledger, a new row under a fresh uuid; visible at COMMIT.
InsertPayment(rows, row) == Append(rows, row)

\* COMMIT; return result.rows[0]
processPaymentCommit(p) ==
    /\ payPc[p] = "p_commit"
    /\ payments' = InsertPayment(payments, PaymentRow(p))
    /\ PaymentReturn(p, "ok")

\* Error mapping of POST /payments/process
ProcessStatusCode(err) == IF err = "OrderNotFound" THEN 404 ELSE 500

NextPayment ==
    \/ \E p \in Workers, req \in PaymentInputs :
          processPaymentBegin(p, req)
    \/ \E p \in Workers : processPaymentOrderCheck(p)
    \/ \E p \in Workers, success \in BOOLEAN : processPaymentGateway(p, success)
    \/ \E p \in Workers : processPaymentInsert(p)
    \/ \E p \in Workers : processPaymentCommit(p)

SpecPayment == Init /\ [][NextPayment]_vars

TypeOK ==
    /\ \A s \in Skus : rowLock[s] \in Workers \cup {NoWorker}
    /\ Len(resLock) = Len(inventory_reservations)
    /\ Len(creditCount) = Len(inventory_reservations)
    /\ calls \in 0..MaxCalls

\* ------------------------------------------------------------ accounting
RECURSIVE SumOver(_, _)
SumOver(f, S) ==
    IF S = {} THEN 0
    ELSE LET x == CHOOSE y \in S : TRUE IN f[x] + SumOver(f, S \ {x})

RowsOf(s) == {i \in DOMAIN inventory_reservations :
                 inventory_reservations[i].sku = s}

\* Quantity of sku s that committed reserve calls took.
RowDebits(s) ==
    SumOver([i \in RowsOf(s) |-> inventory_reservations[i].quantity], RowsOf(s))

\* Quantity of sku s that committed release calls gave back.
RowCredits(s) ==
    SumOver([i \in RowsOf(s) |->
                creditCount[i] * inventory_reservations[i].quantity], RowsOf(s))

\* Quantity of sku s held by reservations in RESERVED or CONFIRMED.
LiveQty(s) ==
    LET live == {i \in RowsOf(s) : inventory_reservations[i].status \in Live}
    IN SumOver([i \in live |-> inventory_reservations[i].quantity], live)

\* Stock of sku s before any call of the run.
TotalStock(s) == InitialStock

NoCreditYet == \A i \in DOMAIN creditCount : creditCount[i] = 0

\* Quantity a reserve request asks of sku s over its whole item list.
Requested(its, s) ==
    LET D == {i \in DOMAIN its : its[i].sku = s}
    IN SumOver([i \in D |-> its[i].quantity], D)

Failed(result) == result \notin {"ok", "none"}

\* ----------------------------------------------------------- refundPayment
\* What a refund request may carry: a known or unknown payment_id, and no
\* amount, zero, or a positive amount (the route turns negative ones away).
RefundAmounts == {NoAmount, <<0>>} \cup {<<n>> : n \in 1..MaxAmount}
RefundPaymentRequest(ids) ==
    [payment_id : ids \cup {UnknownPayment}, amount_cents : RefundAmounts]

\* pool.connect(); BEGIN
refundPaymentBegin(p, req) ==
    /\ payPc[p] = "idle"
    /\ payCalls < MaxCalls
    /\ payCalls' = payCalls + 1
    /\ payPc' = [payPc EXCEPT ![p] = "f_select"]
    /\ refundRequest' = [refundRequest EXCEPT ![p] = req]
    /\ payOutcome' = [payOutcome EXCEPT ![p] = "none"]
    /\ txOpen' = [txOpen EXCEPT ![p] = TRUE]
    /\ txStart' = [txStart EXCEPT ![p] = payCalls + 1]
    /\ UNCHANGED <<payments, request, isPaymentSuccessful, originalPayment,
                   isRefundSuccessful, summaryResult, invVars, now>>

\* A refund that takes any row as refundable.
RefundableAny == {"COMPLETED", "FAILED", "REFUNDED", "PENDING"}
\* originalPayment.status !== 'COMPLETED' throws
Refundable == {"COMPLETED"}

\* originalPayment = await getPaymentById(request.payment_id), a query on
\* the pool that sees committed rows; no row: throw 'Payment not found';
\* a row that is not COMPLETED: throw 'Can only refund completed payments'.
\* Either is caught, rolled back and rethrown.
refundPaymentSelect(p) ==
    /\ payPc[p] = "f_select"
    /\ LET id == refundRequest[p].payment_id IN
       IF id \notin DOMAIN payments
       THEN PaymentReturn(p, "PaymentNotFound") /\ UNCHANGED payments
       ELSE IF payments[id].status \notin Refundable
       THEN PaymentReturn(p, "InvalidState") /\ UNCHANGED payments
       ELSE /\ payPc' = [payPc EXCEPT ![p] = "f_gateway"]
            /\ originalPayment' = [originalPayment EXCEPT ![p] = payments[id]]
            /\ UNCHANGED <<payments, request, isPaymentSuccessful, payOutcome,
                           payCalls, txOpen, txStart, refundRequest,
                           isRefundSuccessful, summaryResult, invVars, now>>

\* isRefundSuccessful = await simulateRefundProcessing(originalPayment,
\* refundAmount)
refundPaymentGateway(p, success) ==
    /\ payPc[p] = "f_gateway"
    /\ payPc' = [payPc EXCEPT ![p] = "f_insert"]
    /\ isRefundSuccessful' = [isRefundSuccessful EXCEPT ![p] = success]
    /\ UNCHANGED <<payments, request, isPaymentSuccessful, payOutcome,
                   payCalls, txOpen, txStart, refundRequest, originalPayment,
                   summaryResult, invVars, now>>

\* const refundAmount = request.amount_cents || originalPayment.amount_cents
\* (an absent amount and the amount 0 both give the original's amount)
RefundAmount(req, original) ==
    IF req.amount_cents = NoAmount THEN original.amount_cents
    ELSE IF req.amount_cents[1] = 0 THEN original.amount_cents
    ELSE req.amount_cents[1]

\* const status = isRefundSuccessful ? 'REFUNDED' : 'FAILED'
RefundStatus(success) == IF success THEN "REFUNDED" ELSE "FAILED"

\* The row of the refund's INSERT INTO payments.
RefundRow(p) ==
    [order_id |-> originalPayment[p].order_id,
     amount_cents |-> -RefundAmount(refundRequest[p], originalPayment[p]),
     currency |-> originalPayment[p].currency,
     status |-> RefundStatus(isRefundSuccessful[p]),
     payment_method |-> originalPayment[p].payment_method,
     created_at |-> txStart[p]]

\* INSERT INTO payments ... RETURNING *, inside the transaction
refundPaymentInsert(p) ==
    /\ payPc[p] = "f_insert"
    /\ payPc' = [payPc EXCEPT ![p] = "f_commit"]
    /\ UNCHANGED <<payments, request, isPaymentSuccessful, payOutcome,
                   payCalls, txOpen, txStart, refundVars, summaryResult,
                   invVars, now>>

\* COMMIT; return result.rows[0]
refundPaymentCommit(p) ==
    /\ payPc[p] = "f_commit"
    /\ payments' = InsertPayment(payments, RefundRow(p))
    /\ PaymentReturn(p, "ok")

\* Error mapping of POST /payments/refund
RefundStatusCode(err) ==
    IF err = "PaymentNotFound" THEN 404
    ELSE IF err = "InvalidState" THEN 400
    ELSE 500

\* ---------------------------------------------- getPaymentSummaryByOrderId
OrderPayments(o) == {i \in DOMAIN payments : payments[i].order_id = o}

\* A summary that totals every row of the order.
TotalledAll == {"COMPLETED", "REFUNDED", "FAILED", "PENDING"}
\* WHERE order_id = $1 AND status IN ('COMPLETED', 'REFUNDED')
Totalled == {"COMPLETED", "REFUNDED"}

Abs(n) == IF n < 0 THEN -n ELSE n

\* (SELECT status FROM payments WHERE order_id = $1
\*   ORDER BY created_at DESC LIMIT 1): the status of a row of the order
\* with the latest created_at, whatever its status; NULL without rows.
LatestStatuses(o) ==
    IF OrderPayments(o) = {} THEN {"null"}
    ELSE {payments[i].status : i \in
             {j \in OrderPayments(o) : \A k \in OrderPayments(o) :
                 payments[k].created_at <= payments[j].created_at}}

\* The one row the aggregate query returns.
Summary(o, latest) ==
    LET rows == {i \in OrderPayments(o) : payments[i].status \in Totalled} IN
    [order_id |-> o,
     total_paid |-> SumOver([i \in rows |->
         IF payments[i].amount_cents > 0 THEN payments[i].amount_cents ELSE 0],
         rows),
     total_refunded |-> Abs(SumOver([i \in rows |->
         IF payments[i].amount_cents < 0 THEN payments[i].amount_cents ELSE 0],
         rows)),
     net_amount |-> SumOver([i \in rows |-> payments[i].amount_cents], rows),
     payment_count |-> Cardinality(rows),
     latest_status |-> latest]

\* result = await pool.query(query, [orderId]): one statement, outside any
\* transaction, on the committed rows.
summaryQuery(p, o, latest) ==
    /\ payPc[p] = "idle"
    /\ payCalls < MaxCalls
    /\ latest \in LatestStatuses(o)
    /\ payCalls' = payCalls + 1
    /\ payPc' = [payPc EXCEPT ![p] = "s_return"]
    /\ summaryResult' = [summaryResult EXCEPT ![p] = Summary(o, latest)]
    /\ payOutcome' = [payOutcome EXCEPT ![p] = "none"]
    /\ UNCHANGED <<payments, request, isPaymentSuccessful, txOpen, txStart,
                   refundVars, invVars, now>>

\* return result.rows[0]
summaryReturn(p) ==
    /\ payPc[p] = "s_return"
    /\ payPc' = [payPc EXCEPT ![p] = "idle"]
    /\ payOutcome' = [payOutcome EXCEPT ![p] = "ok"]
    /\ summaryResult' = [summaryResult EXCEPT ![p] = NoSummary]
    /\ UNCHANGED <<payments, request, isPaymentSuccessful, payCalls, txOpen,
                   txStart, refundVars, invVars, now>>

\* ------------------------------------------------------ the payment service
\* Every value the latest_status column of a summary can carry.
LatestInputs == {"null", "PENDING", "COMPLETED", "FAILED", "REFUNDED"}

\* The requests of concurrent runs: payments of existing orders, refunds
\* of the full amount or of one cent.
LedgerPayments == {r \in PaymentInputs : r.order_id \in Orders}
LedgerRefunds(ids) ==
    {r \in RefundPaymentRequest(ids) : r.amount_cents \in {NoAmount, <<1>>}}

NextLedger ==
    \/ \E p \in Workers, req \in LedgerPayments : processPaymentBegin(p, req)
    \/ \E p \in Workers : processPaymentOrderCheck(p)
    \/ \E p \in Workers, success \in BOOLEAN : processPaymentGateway(p, success)
    \/ \E p \in Workers : processPaymentInsert(p)
    \/ \E p \in Workers : processPaymentCommit(p)
    \/ \E p \in Workers, req \in LedgerRefunds(DOMAIN payments) :
          refundPaymentBegin(p, req)
    \/ \E p \in Workers : refundPaymentSelect(p)
    \/ \E p \in Workers, success \in BOOLEAN : refundPaymentGateway(p, success)
    \/ \E p \in Workers : refundPaymentInsert(p)
    \/ \E p \in Workers : refundPaymentCommit(p)

\* Payments and refunds handled at the same time.
SpecLedger == Init /\ [][NextLedger]_vars

\* Payments, refunds and summaries, one call at a time.
NextLedgerSolo ==
    \/ \E req \in PaymentInputs : processPaymentBegin(Solo, req)
    \/ processPaymentOrderCheck(Solo)
    \/ \E success \in BOOLEAN : processPaymentGateway(Solo, success)
    \/ processPaymentInsert(Solo)
    \/ processPaymentCommit(Solo)
    \/ \E req \in RefundPaymentRequest(DOMAIN payments) :
          refundPaymentBegin(Solo, req)
    \/ refundPaymentSelect(Solo)
    \/ \E success \in BOOLEAN : refundPaymentGateway(Solo, success)
    \/ refundPaymentInsert(Solo)
    \/ refundPaymentCommit(Solo)
    \/ \E o \in OrderIds, latest \in LatestInputs : summaryQuery(Solo, o, latest)
    \/ summaryReturn(Solo)

SpecLedgerSolo == Init /\ [][NextLedgerSolo]_vars

\* ------------------------------------------------------------------- C1
\* C1: as long as no release has credited stock back, the quantities of the
\* committed reservations of a SKU sum to at most its total stock, however
\* the reserve calls interleave.
C1_NoOversell ==
    NoCreditYet => \A s \in Skus : RowDebits(s) <= TotalStock(s)

\* A SKU is sold out by committed reserves and a racing reserve was turned
\* away by the database.
C1_Witness ==
    /\ NoCreditYet
    /\ \E s \in Skus : RowDebits(s) = TotalStock(s)
    /\ \E p \in Workers : outcome[p].result = "inventory_available_quantity_check"

\* ------------------------------------------------------------------- C2
\* C2: a reserve that returns an error leaves every committed inventory row
\* and the committed reservation rows as they were, also when earlier items
\* of its list had been debited; a reserve that succeeds names only known
\* SKUs, asks of no SKU more than was available, and commits one row per item.
C2_ReturnOfReserve(p) ==
    (op[p] = "reserve" /\ pc[p] # "idle" /\ pc'[p] = "idle") =>
        IF outcome'[p].result = "ok"
        THEN /\ \A i \in DOMAIN items[p] : items[p][i].sku \in Skus
             /\ \A s \in Skus :
                    Requested(items[p], s) <= inventory[s].available_quantity
             /\ Len(inventory_reservations') =
                    Len(inventory_reservations) + Len(items[p])
        ELSE /\ inventory' = inventory
             /\ inventory_reservations' = inventory_reservations

C2_AllOrNothing == [][\A p \in Workers : C2_ReturnOfReserve(p)]_vars

\* A reserve failed at its second item, after its first item had been debited
\* inside the transaction, and nothing is reserved.
C2_Witness ==
    /\ \E p \in Workers :
          outcome[p].result \in {"NotFound", "InsufficientStock"}
          /\ outcome[p].at = 2
    /\ inventory_reservations = <<>>
    /\ \A s \in Skus : inventory[s].available_quantity = TotalStock(s)

\* ------------------------------------------------------------------- C3
\* C3: in every committed state the reserved_quantity of every SKU is the
\* summed quantity of its RESERVED and CONFIRMED reservations.
C3_ReservedMatchesLive ==
    \A s \in Skus : inventory[s].reserved_quantity = LiveQty(s)

\* ------------------------------------------------------------------- C4
\* C4: available_quantity + reserved_quantity of every SKU is its total
\* stock in every committed state, whatever calls ran, failed or raced.
C4_StockConserved ==
    \A s \in Skus :
        inventory[s].available_quantity + inventory[s].reserved_quantity
            = TotalStock(s)

\* A release has credited stock back and a call has failed and rolled back.
C4_Witness ==
    /\ \E i \in DOMAIN creditCount : creditCount[i] >= 1
    /\ \E p \in Workers : Failed(outcome[p].result)

\* ------------------------------------------------------------------- C5
\* C5: the quantity of a reservation is credited back to stock at most once
\* over the whole run, also when two releases of its order race.
C5_CreditedAtMostOnce ==
    \A i \in DOMAIN creditCount : creditCount[i] <= 1

\* ------------------------------------------------------------------- C6
\* C6: the reservations a release call moves to RELEASED are exactly the
\* reservations whose quantities it credited to the stock ledger.
C6_CommitOfRelease(p) ==
    (pc[p] = "l_commit" /\ pc'[p] = "idle") =>
        LockedBy(p) = Range(selected[p])

C6_ReleaseCreditsWhatItMarks == [][\A p \in Workers : C6_CommitOfRelease(p)]_vars

\* ------------------------------------------------------------------- C7
\* C7: a reserve applies its debit only to the availability its check read:
\* no other call's committed change of the row lies between the two.
C7_DebitOf(p) ==
    (pc[p] = "r_update" /\ pc'[p] \in {"r_select", "r_commit"}) =>
        Visible(p, CurrentItem(p).sku).available_quantity = readAvail[p]

C7_CheckThenDebitAtomic == [][\A p \in Workers : C7_DebitOf(p)]_vars

\* ------------------------------------------------------------------- C8
\* C8: a reserve whose debit would drive available_quantity below zero is
\* rejected with InsufficientStock (409), never with the storage error of
\* the violated CHECK constraint.
C8_RejectedAsInsufficientStock ==
    \A p \in Workers :
        outcome[p].result = "inventory_available_quantity_check" =>
            ReserveStatusCode(outcome[p].result) = 409

\* ------------------------------------------------------------------- C9
\* C9: available_quantity and reserved_quantity of every SKU are never
\* negative in a committed state.
C9_NonNegative ==
    \A s \in Skus :
        /\ inventory[s].available_quantity >= 0
        /\ inventory[s].reserved_quantity >= 0

\* A statement was turned away by a CHECK constraint while a SKU is sold out.
C9_Witness ==
    /\ \E p \in Workers :
          outcome[p].result \in {"inventory_available_quantity_check",
                                 "inventory_reserved_quantity_check"}
    /\ \E s \in Skus : inventory[s].available_quantity = 0

\* ------------------------------------------------------------------ C10
\* C10: what checkAvailability reads of a SKU is its total stock less the
\* debits of the reserve batches that have committed plus the credits of the
\* releases that have committed: nothing of a batch in progress or rolled
\* back.
C10_ReadOf(p) ==
    (pc[p] = "a_select" /\ pc'[p] = "a_return" /\ CurrentItem(p).sku \in Skus) =>
        readAvail'[p] = TotalStock(CurrentItem(p).sku)
                          - RowDebits(CurrentItem(p).sku)
                          + RowCredits(CurrentItem(p).sku)

C10_ReadersSeeCommitted == [][\A p \in Workers : C10_ReadOf(p)]_vars

\* A reader has its answer while another worker's batch holds an uncommitted
\* debit of the SKU it read.
C10_Witness ==
    \E p \in Workers :
        /\ pc[p] = "a_return"
        /\ CurrentItem(p).sku \in Skus
        /\ rowLock[CurrentItem(p).sku] \notin {NoWorker, p}
        /\ dirty[CurrentItem(p).sku] # inventory[CurrentItem(p).sku]
        /\ readAvail[p] = inventory[CurrentItem(p).sku].available_quantity

\* ------------------------------------------------------------------ C11
\* C11: the status of a committed reservation changes only RESERVED ->
\* CONFIRMED, RESERVED -> RELEASED, CONFIRMED -> RELEASED or RESERVED ->
\* EXPIRED; a RELEASED or EXPIRED reservation keeps its status under every
\* later confirm and release, and no reservation row disappears.
AllowedTransitions ==
    {<<"RESERVED", "CONFIRMED">>, <<"RESERVED", "RELEASED">>,
     <<"CONFIRMED", "RELEASED">>, <<"RESERVED", "EXPIRED">>}

C11_StepOfRow(i) ==
    /\ i \in DOMAIN inventory_reservations'
    /\ \/ inventory_reservations'[i].status = inventory_reservations[i].status
       \/ <<inventory_reservations[i].status,
            inventory_reservations'[i].status>> \in AllowedTransitions

C11_StatusTransitions ==
    [][\A i \in DOMAIN inventory_reservations : C11_StepOfRow(i)]_vars

\* A confirm of an order whose reservation was released has run its UPDATE
\* and taken no row.
C11_Witness ==
    \E p \in Workers :
        /\ pc[p] = "c_commit"
        /\ LockedBy(p) = {}
        /\ \E i \in DOMAIN inventory_reservations :
              /\ inventory_reservations[i].order_id = order_id[p]
              /\ inventory_reservations[i].status = "RELEASED"

\* ------------------------------------------------------------------ C14
\* C14: a confirm of an order that has no RESERVED reservation, and a release
\* of an order that has no RESERVED or CONFIRMED reservation (also an order
\* with no reservation at all), returns successfully and changes no
\* inventory row and no reservation row.
HasStatusIn(o, statuses) ==
    \E i \in DOMAIN inventory_reservations :
        /\ inventory_reservations[i].order_id = o
        /\ inventory_reservations[i].status \in statuses

C14_NothingToDo(p) ==
    \/ op[p] = "confirm" /\ ~HasStatusIn(order_id[p], {"RESERVED"})
    \/ /\ op[p] = "release" /\ pc[p] = "l_commit" /\ selected[p] = <<>>
       /\ ~HasStatusIn(order_id[p], {"RESERVED", "CONFIRMED"})

C14_ReturnOf(p) ==
    (C14_NothingToDo(p) /\ pc[p] # "idle" /\ pc'[p] = "idle") =>
        /\ outcome'[p].result = "ok"
        /\ inventory' = inventory
        /\ inventory_reservations' = inventory_reservations

C14_NoOpWithoutReservations == [][\A p \in Workers : C14_ReturnOf(p)]_vars

\* A release of an order that has no reservation at all is about to commit
\* while another order holds stock.
C14_Witness ==
    \E p \in Workers :
        /\ pc[p] = "l_commit"
        /\ selected[p] = <<>>
        /\ ~HasStatusIn(order_id[p], {"RESERVED", "CONFIRMED", "RELEASED"})
        /\ inventory_reservations # <<>>

\* ------------------------------------------------------------------ C18
\* C18: a reserve that names an unknown SKU is answered as a rejection of the
\* request, with a status code other than the one of an internal or storage
\* failure.
C18_NotFoundIsRejection ==
    \A p \in Workers :
        outcome[p].result = "NotFound" =>
            ReserveStatusCode(outcome[p].result)
                # ReserveStatusCode("DeadlockDetected")

\* ------------------------------------------------------------------ C12
\* C12: with calls running one after another, a release of an order whose
\* reservations were already released returns successfully and changes no
\* inventory row and no reservation row, and after every release each
\* reservation has been credited to stock exactly once if it is RELEASED and
\* never otherwise.
C12_ReleaseOf(p) ==
    (op[p] = "release" /\ pc[p] # "idle" /\ pc'[p] = "idle") =>
        /\ outcome'[p].result = "ok"
        /\ \A i \in DOMAIN inventory_reservations' :
              creditCount'[i] =
                  IF inventory_reservations'[i].status = "RELEASED" THEN 1 ELSE 0
        /\ ~HasStatusIn(order_id[p], {"RESERVED", "CONFIRMED"}) =>
              /\ inventory' = inventory
              /\ inventory_reservations' = inventory_reservations

C12_ReleaseIdempotent == [][C12_ReleaseOf(Solo)]_vars

\* The second release of an order is about to commit: the order's
\* reservation is RELEASED and was credited once.
C12_Witness ==
    /\ pc[Solo] = "l_commit"
    /\ selected[Solo] = <<>>
    /\ \E i \in DOMAIN inventory_reservations :
          /\ inventory_reservations[i].order_id = order_id[Solo]
          /\ inventory_reservations[i].status = "RELEASED"
          /\ creditCount[i] = 1

\* ------------------------------------------------------------------ C13
\* C13: with calls running one after another, the stock of every SKU is at
\* every moment its total stock less the quantities of its RESERVED and
\* CONFIRMED reservations, and a release leaves every reservation of its
\* order RELEASED: a successful reserve followed by the release of the same
\* order, with or without a confirm in between, puts available_quantity and
\* reserved_quantity of every SKU back to their values before the reserve.
HeldQty(s) ==
    LET held == {i \in RowsOf(s) : inventory_reservations[i].status
                                       \in {"RESERVED", "CONFIRMED"}}
    IN SumOver([i \in held |-> inventory_reservations[i].quantity], held)

C13_StockIsTotalLessHeld ==
    \A s \in Skus :
        inventory[s] = [available_quantity |-> TotalStock(s) - HeldQty(s),
                        reserved_quantity |-> HeldQty(s)]

C13_ReleaseOf(p) ==
    (op[p] = "release" /\ pc[p] # "idle" /\ pc'[p] = "idle") =>
        /\ outcome'[p].result = "ok"
        /\ \A i \in DOMAIN inventory_reservations :
              inventory_reservations[i].order_id = order_id[p] =>
                  inventory_reservations'[i].status = "RELEASED"

C16_ReserveOf(p) ==
    (pc[p] = "r_commit" /\ pc'[p] = "idle") =>
        /\ \A s \in Skus :
              inventory'[s] =
                  [available_quantity |->
                       inventory[s].available_quantity - Requested(items[p], s),
                   reserved_quantity |->
                       inventory[s].reserved_quantity + Requested(items[p], s)]
        /\ Len(inventory_reservations') =
               Len(inventory_reservations) + Len(items[p])
        /\ \A i \in DOMAIN inventory_reservations :
              inventory_reservations'[i] = inventory_reservations[i]
        /\ \A k \in DOMAIN items[p] :
              LET r == inventory_reservations'[Len(inventory_reservations) + k]
              IN /\ r.order_id = order_id[p]
                 /\ r.sku = items[p][k].sku
                 /\ r.quantity = items[p][k].quantity
                 /\ r.status = "RESERVED"

C16_ReserveEffect == [][C16_ReserveOf(Solo)]_vars

\* A reserve of 2 x item-001 and 1 x item-002 has committed on fresh stock.
C16_Witness ==
    /\ pc[Solo] = "idle" /\ outcome[Solo].result = "ok"
    /\ Len(inventory_reservations) = 2
    /\ inventory_reservations[1].sku = "item-001"
    /\ inventory_reservations[1].quantity = 2
    /\ inventory_reservations[2].sku = "item-002"
    /\ inventory_reservations[2].quantity = 1
    /\ inventory["item-001"] =
           [available_quantity |-> InitialStock - 2, reserved_quantity |-> 2]
    /\ inventory["item-002"] =
           [available_quantity |-> InitialStock - 1, reserved_quantity |-> 1]

\* ------------------------------------------------------------------ C17
\* C17: checkAvailability(sku, q) answers, for a known SKU, with the SKU's
\* current available_quantity and is_available = (available_quantity >= q),
\* and for an unknown SKU with available_quantity 0 and is_available false;
\* it returns without an error in both cases.
C17_CheckOf(p) ==
    /\ (pc[p] = "a_select" /\ pc'[p] = "a_return") =>
          LET sku == CurrentItem(p).sku
              q == CurrentItem(p).quantity
          IN AvailabilityCheck(p)' =
                IF sku \in Skus
                THEN [sku |-> sku, requested_quantity |-> q,
                      available_quantity |-> inventory[sku].available_quantity,
                      is_available |-> inventory[sku].available_quantity >= q]
                ELSE [sku |-> sku, requested_quantity |-> q,
                      available_quantity |-> 0, is_available |-> FALSE]
    /\ (pc[p] = "a_return" /\ pc'[p] = "idle") => outcome'[p].result = "ok"

C17_AvailabilityAnswer == [][C17_CheckOf(Solo)]_vars

\* A check has read a known SKU whose whole remaining stock is asked for,
\* after a reserve had taken some of it.
C17_Witness ==
    /\ pc[Solo] = "a_return"
    /\ CurrentItem(Solo).sku \in Skus
    /\ readAvail[Solo] = CurrentItem(Solo).quantity
    /\ readAvail[Solo] < InitialStock
    /\ AvailabilityCheck(Solo).is_available

\* ------------------------------------------------------------------ C15
\* C15: every reservation that is still RESERVED after its expires_at is
\* eventually moved to EXPIRED.
MaxRows == MaxCalls * MaxItems

IsOverdue(i) ==
    /\ i \in DOMAIN inventory_reservations
    /\ inventory_reservations[i].status = "RESERVED"
    /\ inventory_reservations[i].expires_at < now

IsExpired(i) ==
    /\ i \in DOMAIN inventory_reservations
    /\ inventory_reservations[i].status = "EXPIRED"

C15_OverdueAreExpired ==
    \A i \in 1..MaxRows : IsOverdue(i) ~> IsExpired(i)

\* ------------------------------------------------------------------ C19
\* C19: a reserve computes one expires_at when it is called, the current
\* time plus 30 minutes when the request gives no expiration_minutes and
\* the current time plus the given minutes when it gives them, and every
\* reservation it creates carries that expires_at.
C19_ReserveOf(p) ==
    /\ (pc[p] = "idle" /\ pc'[p] = "r_select") =>
          expiresAt'[p] = now +
              (IF expiration_minutes'[p] = NoMinutes
               THEN DefaultExpirationMinutes
               ELSE expiration_minutes'[p][1])
    /\ (pc[p] = "r_commit" /\ pc'[p] = "idle") =>
          \A k \in DOMAIN items[p] :
              inventory_reservations'[Len(inventory_reservations) + k].expires_at
                  = expiresAt[p]

C19_ExpiresAt == [][C19_ReserveOf(Solo)]_vars

\* ------------------------------------------------------------------ C20
\* C20: every processPayment call for an existing order returns successfully
\* having appended exactly one row to payments, carrying the request's
\* order_id, amount, currency and method, with status COMPLETED when the
\* gateway reported success and FAILED otherwise; no step of the call writes
\* any other row, and no row of the ledger is ever PENDING.
C20_CallOf(p) ==
    /\ (payPc[p] # "idle" /\ payPc'[p] = "idle" /\ OrderExists(request[p].order_id)) =>
          /\ payOutcome'[p] = "ok"
          /\ Len(payments') = Len(payments) + 1
          /\ \A i \in DOMAIN payments : payments'[i] = payments[i]
          /\ LET row == payments'[Len(payments')] IN
             /\ row.order_id = request[p].order_id
             /\ row.amount_cents = request[p].amount_cents
             /\ row.currency = request[p].currency
             /\ row.payment_method = request[p].payment_method
             /\ row.status = IF isPaymentSuccessful[p] THEN "COMPLETED"
                             ELSE "FAILED"
    /\ (payPc'[p] # payPc[p] /\ payPc'[p] # "idle") => payments' = payments

C20_NoPending ==
    \A i \in DOMAIN payments : payments[i].status # "PENDING"

C20_OneRowPerPayment ==
    [][(\A p \in Workers : C20_CallOf(p)) /\ C20_NoPending']_vars

\* Two payments of one order have been recorded after the sample rows, one
\* declined by the gateway and one accepted.
C20_Witness ==
    /\ Len(payments) = Len(SamplePayments) + 2
    /\ payments[Len(payments)].order_id = payments[Len(payments) - 1].order_id
    /\ payments[Len(payments) - 1].status = "FAILED"
    /\ payments[Len(payments)].status = "COMPLETED"
    /\ \A p \in Workers : payPc[p] = "idle"

\* ------------------------------------------------------------------ C21
\* C21: a processPayment call for an order_id that is not in the order
\* registry ends at its order check with OrderNotFound (404), never reaches
\* the gateway or the INSERT, and leaves the payments ledger unchanged.
C21_CallOf(p) ==
    /\ (payPc[p] = "p_order" /\ request[p].order_id \notin Orders
           /\ payPc'[p] # payPc[p]) =>
          /\ payPc'[p] = "idle"
          /\ payOutcome'[p] = "OrderNotFound"
          /\ ProcessStatusCode(payOutcome'[p]) = 404
          /\ payments' = payments
    /\ payPc'[p] \in {"p_gateway", "p_insert", "p_commit"} =>
          request'[p].order_id \in Orders

C21_UnknownOrderRejected == [][\A p \in Workers : C21_CallOf(p)]_vars

\* A payment for an unknown order was turned away after another payment
\* had been recorded.
C21_Witness ==
    /\ \E p \in Workers : payOutcome[p] = "OrderNotFound"
    /\ Len(payments) > Len(SamplePayments)

\* ------------------------------------------------------------------ C22
\* C22: a refundPayment call whose payment_id matches no ledger row fails
\* with PaymentNotFound (404), one whose row has a status other than
\* COMPLETED fails with InvalidState (400), and neither reaches the refund
\* capability or writes a ledger row.
C22_CallOf(p) ==
    /\ (payPc[p] = "f_select" /\ payPc'[p] # payPc[p]
           /\ refundRequest[p].payment_id \notin DOMAIN payments) =>
          /\ payPc'[p] = "idle"
          /\ payOutcome'[p] = "PaymentNotFound"
          /\ RefundStatusCode(payOutcome'[p]) = 404
          /\ payments' = payments
    /\ (payPc[p] = "f_select" /\ payPc'[p] # payPc[p]
           /\ refundRequest[p].payment_id \in DOMAIN payments
           /\ payments[refundRequest[p].payment_id].status # "COMPLETED") =>
          /\ payPc'[p] = "idle"
          /\ payOutcome'[p] = "InvalidState"
          /\ RefundStatusCode(payOutcome'[p]) = 400
          /\ payments' = payments
    /\ payPc'[p] \in {"f_gateway", "f_insert", "f_commit"} =>
          /\ refundRequest'[p].payment_id \in DOMAIN payments'
          /\ payments'[refundRequest'[p].payment_id].status = "COMPLETED"

C22_RefundRejections == [][C22_CallOf(Solo)]_vars

\* A refund was turned away with InvalidState while the only row that is
\* not COMPLETED is the REFUNDED row of an earlier refund.
C22_Witness ==
    /\ payOutcome[Solo] = "InvalidState"
    /\ \E i \in DOMAIN payments : payments[i].status = "REFUNDED"
    /\ \A i \in DOMAIN payments : payments[i].status \in {"COMPLETED", "REFUNDED"}

\* ------------------------------------------------------------------ C23
\* C23: a payment is refunded at most once: after a REFUNDED refund of a
\* payment is written, a later refundPayment for the same payment_id is
\* rejected and writes no row.  A refund row carries its original's
\* order_id and only COMPLETED rows are refundable, so in an order with a
\* single COMPLETED payment every REFUNDED row is a refund of that payment,
\* and there is at most one of them.
C23_CompletedOf(o) ==
    {i \in DOMAIN payments : payments[i].order_id = o
                               /\ payments[i].status = "COMPLETED"}

C23_RefundedOf(o) ==
    {i \in DOMAIN payments : payments[i].order_id = o
                               /\ payments[i].status = "REFUNDED"}

C23_NoDoubleRefund ==
    \A o \in Orders :
        Cardinality(C23_CompletedOf(o)) = 1 => Cardinality(C23_RefundedOf(o)) <= 1

\* ------------------------------------------------------------------ C24
\* C24: the ledger is append-only: no step of processPayment or
\* refundPayment changes or removes a row that is already in payments; a
\* refund adds a row and leaves its original COMPLETED.
C24_RowsKept ==
    \A i \in DOMAIN payments :
        i \in DOMAIN payments' /\ payments'[i] = payments[i]

C24_OriginalKept(p) ==
    (payPc[p] = "f_commit" /\ payPc'[p] = "idle") =>
        /\ Len(payments') = Len(payments) + 1
        /\ payments'[refundRequest[p].payment_id].status = "COMPLETED"
        /\ payments'[refundRequest[p].payment_id] = originalPayment[p]

C24_AppendOnly == [][C24_RowsKept /\ \A p \in Workers : C24_OriginalKept(p)]_vars

\* A successful refund of a seeded payment has been written behind the
\* seeded rows, which are as they were.
C24_Witness ==
    /\ Len(payments) = Len(SamplePayments) + 1
    /\ payments[Len(payments)].status = "REFUNDED"
    /\ \A i \in DOMAIN SamplePayments : payments[i] = SamplePayments[i]

\* ------------------------------------------------------------------ C25
\* C25: a refundPayment call on a COMPLETED payment writes one new row
\* whose amount_cents is the negation of the requested amount, or of the
\* original's amount_cents when the request gives none, whose status is
\* REFUNDED if the refund capability succeeded and FAILED otherwise, and
\* whose order_id, currency and payment_method are the original's.
C25_Requested(req, original) ==
    IF req.amount_cents = NoAmount THEN original.amount_cents
    ELSE req.amount_cents[1]

C25_CallOf(p) ==
    (payPc[p] = "f_commit" /\ payPc'[p] = "idle") =>
        LET original == payments[refundRequest[p].payment_id]
            row == payments'[Len(payments')]
        IN /\ original.status = "COMPLETED"
           /\ Len(payments') = Len(payments) + 1
           /\ row.amount_cents = -C25_Requested(refundRequest[p], original)
           /\ row.status = IF isRefundSuccessful[p] THEN "REFUNDED" ELSE "FAILED"
           /\ row.order_id = original.order_id
           /\ row.currency = original.currency
           /\ row.payment_method = original.payment_method

C25_RefundRow == [][C25_CallOf(Solo)]_vars

\* ------------------------------------------------------------------ C26
\* C26: no refund row is written with an absolute amount above the
\* amount_cents of the payment it refunds; a request for more is rejected
\* before a row is written.
C26_CallOf(p) ==
    (payPc[p] = "f_commit" /\ payPc'[p] = "idle" /\ Len(payments') > Len(payments)) =>
        -payments'[Len(payments')].amount_cents
            <= payments[refundRequest[p].payment_id].amount_cents

C26_RefundCapped == [][C26_CallOf(Solo)]_vars

\* ------------------------------------------------------------------ C27
\* C27: summary(order_id) totals only the order's COMPLETED and REFUNDED
\* rows: total_paid is the sum of their positive amounts, total_refunded
\* the absolute value of the sum of their negative amounts, net_amount
\* their signed sum; PENDING and FAILED rows, FAILED refund rows among
\* them, add nothing.  A COMPLETED payment of MaxAmount followed by a
\* REFUNDED entry of -1 gives MaxAmount, 1, MaxAmount - 1.
RECURSIVE C27_Total(_, _, _)
C27_Total(o, n, sign) ==
    IF n = 0 THEN 0
    ELSE LET r == payments[n]
             counts == /\ r.order_id = o
                       /\ (r.status = "COMPLETED" \/ r.status = "REFUNDED")
                       /\ r.amount_cents * sign > 0
         IN (IF counts THEN r.amount_cents ELSE 0) + C27_Total(o, n - 1, sign)

C27_RowsOfOrder(o) ==
    SelectSeq([i \in DOMAIN payments |->
                  <<payments[i].status, payments[i].amount_cents, payments[i].order_id>>],
              LAMBDA r : r[3] = o)

C27_CallOf(p) ==
    (payPc[p] = "idle" /\ payPc'[p] = "s_return") =>
        LET s == summaryResult'[p]
            o == s.order_id
            paid == C27_Total(o, Len(payments), 1)
            refunded == C27_Total(o, Len(payments), -1)
        IN /\ s.total_paid = paid
           /\ s.total_refunded = -refunded
           /\ s.net_amount = paid + refunded
           /\ C27_RowsOfOrder(o) = <<<<"COMPLETED", MaxAmount, o>>, <<"REFUNDED", -1, o>>>> =>
                 /\ s.total_paid = MaxAmount
                 /\ s.total_refunded = 1
                 /\ s.net_amount = MaxAmount - 1

C27_SummaryTotals == [][C27_CallOf(Solo)]_vars

\* A summary has been computed for an order that has a REFUNDED refund and
\* a FAILED refund row, and it counts the former only.
C27_Witness ==
    /\ payPc[Solo] = "s_return"
    /\ \E i, j \in OrderPayments(summaryResult[Solo].order_id) :
          /\ payments[i].status = "REFUNDED"
          /\ payments[j].status = "FAILED" /\ payments[j].amount_cents < 0
          /\ summaryResult[Solo].total_refunded = -payments[i].amount_cents

\* ------------------------------------------------------------------ C28
\* C28: for an order without a COMPLETED or REFUNDED row, an order whose
\* only rows are FAILED or PENDING included, summary returns total_paid 0,
\* total_refunded 0, net_amount 0 and latest_status null.
C28_Qualifying(o) ==
    {i \in DOMAIN payments : /\ payments[i].order_id = o
                               /\ payments[i].status \in {"COMPLETED", "REFUNDED"}}

C28_CallOf(p) ==
    (payPc[p] = "idle" /\ payPc'[p] = "s_return"
        /\ C28_Qualifying(summaryResult'[p].order_id) = {}) =>
        /\ summaryResult'[p].total_paid = 0
        /\ summaryResult'[p].total_refunded = 0
        /\ summaryResult'[p].net_amount = 0
        /\ summaryResult'[p].latest_status = "null"

C28_EmptySummary == [][C28_CallOf(Solo)]_vars

\* ------------------------------------------------------------------ C29
\* C29: a call that waits for the gateway's outcome, in processPayment or
\* in refundPayment, holds no open database transaction.
C29_NoTransactionAtGateway ==
    \A p \in Workers :
        payPc[p] \in {"p_gateway", "f_gateway"} => ~txOpen[p]

\* ------------------------------------------------------------------ C30
\* C30: concurrent ledger writers commute.  Whatever the other worker did
\* while a processPayment or refundPayment call was in flight, the call's
\* commit appends exactly the row fixed by its own request and gateway
\* outcome behind all rows present, and moves every order's summary totals
\* by that row's amount alone; so two overlapping calls end with both rows
\* appended and with the totals of either sequential order.
C30_Own(p) ==
    IF payPc[p] = "p_commit"
    THEN [order_id |-> request[p].order_id,
          amount_cents |-> request[p].amount_cents,
          status |-> IF isPaymentSuccessful[p] THEN "COMPLETED" ELSE "FAILED"]
    ELSE LET original == payments[refundRequest[p].payment_id] IN
         [order_id |-> original.order_id,
          amount_cents |-> IF refundRequest[p].amount_cents \in {NoAmount, <<0>>}
                           THEN -original.amount_cents
                           ELSE -refundRequest[p].amount_cents[1],
          status |-> IF isRefundSuccessful[p] THEN "REFUNDED" ELSE "FAILED"]

C30_Moved(own, o, positive) ==
    IF /\ own.order_id = o
       /\ own.status \in {"COMPLETED", "REFUNDED"}
       /\ (own.amount_cents > 0) = positive
    THEN own.amount_cents
    ELSE 0

\* The totals of summary(o) over a ledger: <<total_paid, total_refunded>>;
\* net_amount is their difference.
RECURSIVE C30_Totals(_, _, _)
C30_Totals(rows, o, n) ==
    IF n = 0 THEN <<0, 0>>
    ELSE LET rest == C30_Totals(rows, o, n - 1)
             r == rows[n]
         IN IF r.order_id # o \/ r.status \notin {"COMPLETED", "REFUNDED"}
            THEN rest
            ELSE IF r.amount_cents > 0
            THEN <<rest[1] + r.amount_cents, rest[2]>>
            ELSE <<rest[1], rest[2] - r.amount_cents>>

\* In every state the summary the service computes carries these totals.
C30_SummaryIsTotals ==
    \A o \in Orders :
        LET s == Summary(o, "null")
            totals == C30_Totals(payments, o, Len(payments))
        IN /\ s.total_paid = totals[1]
           /\ s.total_refunded = totals[2]
           /\ s.net_amount = totals[1] - totals[2]

C30_CallOf(p) ==
    (payPc[p] \in {"p_commit", "f_commit"} /\ payPc'[p] = "idle") =>
        LET own == C30_Own(p)
            new == payments'[Len(payments')]
        IN /\ Len(payments') = Len(payments) + 1
           /\ \A i \in DOMAIN payments : payments'[i] = payments[i]
           /\ new.order_id = own.order_id
           /\ new.amount_cents = own.amount_cents
           /\ new.status = own.status
           /\ \A o \in Orders :
                 LET before == C30_Totals(payments, o, Len(payments))
                     after == C30_Totals(payments', o, Len(payments'))
                 IN /\ after[1] = before[1] + C30_Moved(own, o, TRUE)
                    /\ after[2] = before[2] - C30_Moved(own, o, FALSE)

C30_WritersCommute ==
    /\ []C30_SummaryIsTotals
    /\ [][\A p \in Workers : C30_CallOf(p)]_vars

\* Two calls on the same order overlapped: worker 2 is still at its commit
\* while a call that began after it has already appended its counted row.
C30_Witness ==
    /\ payPc[2] \in {"p_commit", "f_commit"}
    /\ Len(payments) > Len(SamplePayments)
    /\ payments[Len(payments)].created_at > txStart[2]
    /\ payments[Len(payments)].status \in {"COMPLETED", "REFUNDED"}
    /\ payments[Len(payments)].order_id = C30_Own(2).order_id
    /\ C30_Own(2).status \in {"COMPLETED", "REFUNDED"}

\* ------------------------------------------------------------------ C31
\* C31: every reserveInventory call that has begun eventually returns,
\* committed or rolled back, also when two concurrent batches name the same
\* two SKUs in opposite order: no two reserve calls wait for each other's
\* inventory row forever.
C31_InReserve(p) == op[p] = "reserve" /\ pc[p] # "idle"

C31_Returned(p) ==
    /\ pc[p] = "idle"
    /\ outcome[p].result # "none"
    /\ rowLock = [s \in Skus |-> IF rowLock[s] = p THEN NoWorker ELSE rowLock[s]]

C31_ReserveTerminates ==
    \A p \in Workers : C31_InReserve(p) ~> C31_Returned(p)

\* Two reserve calls each hold the inventory row the other's UPDATE needs.
C31_Witness ==
    /\ \A p \in Workers : op[p] = "reserve" /\ pc[p] = "r_update"
    /\ rowLock[CurrentItem(1).sku] = 2
    /\ rowLock[CurrentItem(2).sku] = 1

\* ------------------------------------------------------------------ C32
\* C32: confirm and release touch only the named order.  No statement of
\* confirmReservation(A) writes or locks an inventory row or a reservation
\* of another order; no statement of releaseReservation(A) writes or locks
\* a reservation of another order, and the only inventory rows it writes
\* are those of SKUs named by reservations of A that its SELECT found
\* RESERVED or CONFIRMED.
C32_OthersKept(p) ==
    /\ DOMAIN inventory_reservations' = DOMAIN inventory_reservations
    /\ \A i \in DOMAIN inventory_reservations :
          inventory_reservations[i].order_id # order_id[p] =>
              /\ inventory_reservations'[i] = inventory_reservations[i]
              /\ resLock'[i] = resLock[i]

C32_SkusOf(p) ==
    {inventory_reservations[i].sku : i \in
        {j \in Range(selected[p]) :
            inventory_reservations[j].order_id = order_id[p]}}

C32_StepOf(p) ==
    /\ (op[p] = "confirm" /\ pc'[p] # pc[p]) =>
          /\ inventory' = inventory
          /\ dirty' = dirty
          /\ rowLock' = rowLock
          /\ C32_OthersKept(p)
    /\ (op[p] = "release" /\ pc'[p] # pc[p]) =>
          /\ C32_OthersKept(p)
          /\ \A s \in Skus :
                (inventory'[s] # inventory[s] \/ dirty'[s] # dirty[s]
                    \/ rowLock'[s] # rowLock[s]) => s \in C32_SkusOf(p)
    /\ (op[p] = "release" /\ pc[p] = "l_select" /\ pc'[p] # pc[p]) =>
          \A i \in Range(selected'[p]) :
              /\ inventory_reservations[i].order_id = order_id[p]
              /\ inventory_reservations[i].status \in {"RESERVED", "CONFIRMED"}

C32_OnlyNamedOrder == [][\A p \in Workers : C32_StepOf(p)]_vars

\* A release of one order is about to commit its credit while another
\* order holds a RESERVED or CONFIRMED reservation.
C32_Witness ==
    \E p \in Workers :
        /\ op[p] = "release" /\ pc[p] = "l_commit"
        /\ selected[p] # <<>>
        /\ \E i \in DOMAIN inventory_reservations :
              /\ inventory_reservations[i].order_id # order_id[p]
              /\ inventory_reservations[i].status \in {"RESERVED", "CONFIRMED"}

\* ------------------------------------------------------------------ C33
\* C33: when a reserve request lists a SKU more than once, the availability
\* check of a later occurrence reads the SKU's available_quantity less the
\* quantities of the earlier occurrences; the batch commits only if the
\* SKU's available_quantity covers the sum of the quantities asked of it,
\* and a check that finds too little rolls the whole batch back.
RECURSIVE C33_Before(_, _, _)
C33_Before(its, k, s) ==
    IF k <= 1 THEN 0
    ELSE (IF its[k - 1].sku = s THEN its[k - 1].quantity ELSE 0)
             + C33_Before(its, k - 1, s)

C33_Left(p) ==
    inventory[CurrentItem(p).sku].available_quantity
        - C33_Before(items[p], idx[p], CurrentItem(p).sku)

C33_StepOf(p) ==
    /\ (pc[p] = "r_select" /\ pc'[p] = "r_update") =>
          /\ readAvail'[p] = C33_Left(p)
          /\ C33_Left(p) >= CurrentItem(p).quantity
    /\ (pc[p] = "r_select" /\ pc'[p] # pc[p] /\ CurrentItem(p).sku \in Skus
           /\ C33_Left(p) < CurrentItem(p).quantity) =>
          /\ pc'[p] = "idle"
          /\ outcome'[p].result = "InsufficientStock"
          /\ inventory' = inventory
          /\ inventory_reservations' = inventory_reservations
          /\ \A s \in Skus : rowLock[s] = p =>
                dirty'[s] = inventory[s] /\ rowLock'[s] = NoWorker
    /\ (pc[p] = "r_commit" /\ pc'[p] = "idle") =>
          \A s \in Skus :
              /\ inventory[s].available_quantity
                    >= C33_Before(items[p], Len(items[p]) + 1, s)
              /\ inventory'[s].available_quantity = inventory[s].available_quantity
                    - C33_Before(items[p], Len(items[p]) + 1, s)

C33_DuplicateSku == [][\A p \in Workers : C33_StepOf(p)]_vars

\* A batch that names one SKU twice has debited the first occurrence and is
\* at the check of the second, for which too little is left.
C33_Witness ==
    \E p \in Workers :
        /\ op[p] = "reserve" /\ pc[p] = "r_select" /\ idx[p] = 2
        /\ items[p][1].sku = items[p][2].sku
        /\ rowLock[items[p][2].sku] = p
        /\ dirty[items[p][2].sku].available_quantity < items[p][2].quantity

\* ------------------------------------------------------------------ C34
\* C34: confirmReservation does not look at expires_at: every RESERVED
\* reservation of the order becomes CONFIRMED, also one whose expires_at
\* has passed; a CONFIRMED reservation leaves that status only by a
\* release, and until then its quantity is counted in reserved_quantity.
RECURSIVE C34_Held(_, _)
C34_Held(s, n) ==
    IF n = 0 THEN 0
    ELSE LET r == inventory_reservations[n]
         IN (IF r.sku = s /\ (r.status = "RESERVED" \/ r.status = "CONFIRMED")
             THEN r.quantity ELSE 0) + C34_Held(s, n - 1)

C34_Counted ==
    pc[Solo] = "idle" =>
        \A s \in Skus :
            inventory[s].reserved_quantity = C34_Held(s, Len(inventory_reservations))

C34_StepOfRow(i) ==
    /\ (op[Solo] = "confirm" /\ pc[Solo] = "c_commit" /\ pc'[Solo] = "idle"
           /\ inventory_reservations[i].order_id = order_id[Solo]
           /\ inventory_reservations[i].status = "RESERVED") =>
          inventory_reservations'[i].status = "CONFIRMED"
    /\ (inventory_reservations[i].status = "CONFIRMED"
           /\ inventory_reservations'[i].status # "CONFIRMED") =>
          /\ op[Solo] = "release"
          /\ inventory_reservations[i].order_id = order_id[Solo]
          /\ inventory_reservations'[i].status = "RELEASED"

C34_ConfirmIgnoresExpiry ==
    /\ []C34_Counted
    /\ [][\A i \in DOMAIN inventory_reservations : C34_StepOfRow(i)]_vars

\* A confirm has run its UPDATE on a reservation whose expires_at has
\* passed.
C34_Witness ==
    /\ op[Solo] = "confirm" /\ pc[Solo] = "c_commit"
    /\ \E i \in DOMAIN inventory_reservations :
          /\ resLock[i] = Solo
          /\ inventory_reservations[i].status = "RESERVED"
          /\ inventory_reservations[i].expires_at < now

\* ------------------------------------------------------------------ C35
\* C35: a reserve for an order_id that is not in the orders table commits
\* nothing: it returns an error, adds no reservation row and leaves every
\* inventory quantity as it was, also when all its stock checks passed and
\* only the reservation's foreign key stopped it.
C35_OrphanFree ==
    \A i \in DOMAIN inventory_reservations :
        inventory_reservations[i].order_id \in Orders

C35_StepOf(p) ==
    /\ (op[p] = "reserve" /\ order_id[p] \notin Orders
           /\ pc[p] # "idle" /\ pc'[p] = "idle") =>
          /\ outcome'[p].result \notin {"ok", "none"}
          /\ inventory' = inventory
          /\ inventory_reservations' = inventory_reservations
          /\ \A s \in Skus : rowLock[s] = p =>
                dirty'[s] = inventory[s] /\ rowLock'[s] = NoWorker
    /\ (op[p] = "reserve" /\ order_id[p] \notin Orders
           /\ pc[p] = "r_update" /\ pc'[p] # pc[p]) =>
          /\ pc'[p] = "idle"
          /\ dirty' = dirty
          /\ (CurrentItem(p).quantity
                 <= inventory[CurrentItem(p).sku].available_quantity
               /\ rowLock[CurrentItem(p).sku] = NoWorker) =>
                outcome'[p].result = "ForeignKeyViolation"

====
